---- MODULE Spec2Model ----
(***************************************************************************)
(* Model of the comic downloader: URL extraction (reconciliation of the    *)
(* DOM and the in-page JS array), the bounded retrying image fetch, the    *)
(* CBZ assembler and the issue-level orchestrator.                         *)
(*                                                                         *)
(* Specifications:                                                         *)
(*   SpecExtract  the merge / dedup script of extract_image_urls           *)
(*   Spec         one Comic_Issue_Automation.run pipeline                  *)
(*   SpecSlots    download_image_urls with many items (slot accounting)    *)
(*   SpecOrch     Comic_Downloader.download over several issues            *)
(*   SpecCbz      create_cbz called on its own with any list of pairs      *)
(*   SpecRerun    a run over what a former run of the issue left on disk   *)
(*   SpecDirs     download over issues with titles (issue directories)     *)
(*   SpecLive     the two semaphore tiers under fair scheduling            *)
(*   SpecScroll   the progressive scroll loop of extract_image_urls        *)
(*   SpecSanitize _sanitize_title and _sanitize_filename on one title      *)
(*   SpecNames    file and archive entry names of two pages                *)
(***************************************************************************)
EXTENDS Integers, Sequences, FiniteSets, TLC

\* ---- bounds of the model ----
NumUrls == 3        \* distinct URLs 1..NumUrls the page can show
MaxDom == 3         \* most <img> elements under #divImage
MaxJs == 2          \* most entries of the in-page encoded array

\* ---- values ----
NoSrc == 0               \* img without (or with empty) src attribute
Placeholder == 0 - 1     \* src naming blank.gif / trans.png / loading.gif
null == 0                \* JS null pushed for a gap; also a falsy decode result
FallbackBase == 10       \* 'https://2.bp.blogspot.com/pw/AP1Gcz' + encoded

Urls == 1..NumUrls

MaxUrls == 2        \* longest URL list one run downloads
MaxBatch == 11      \* longest URL list of the slot accounting
MaxIssues == 5      \* most issues of a series
MaxConcurrent == 3  \* largest max_concurrent_issues tried (3 is the default)
MaxPairs == 3       \* longest list handed to create_cbz on its own
MaxIndex == 5        \* largest index in such a list
MaxTitled == 2       \* most issues a listing with titles holds
LiveBatch == 11      \* URL list of the batch followed under fair scheduling
LiveIssues == 3      \* most issues of the download call followed under fair scheduling
LiveConcurrent == 2  \* largest max_concurrent_issues of that call
MaxHeight == 6       \* largest document height of the scrolled page
MaxViewport == 4     \* largest window.innerHeight
MaxChanges == 2      \* most changes of the document height during the scroll
MaxAffix == 2        \* most characters before and after the filler of a title
MaxPower == 3        \* page indices go up to 10 ^ MaxPower + 1

\* ---- program constants ----
AssetBound == 10         \* asyncio.Semaphore(10)
max_retries == 3
PadWidth == 3            \* {image_index:03d}

None == "None"
Raised == "raised"       \* the coroutine ended with an exception

VARIABLES
    \* extract_image_urls (the page script)
    ex_pc, domImages, encodedArr, hasDecoder, domUrls, jsUrls, urls, finalUrls,
    \* Comic_Issue_Automation.run
    run_pc,            \* position of run()
    page_open,         \* the page of this run is open
    image_urls,        \* result of extract_image_urls
    item,              \* per image_index: position of its download_image task
    sem,               \* image_download_semaphore._value
    results,           \* per image_index: value of its task for gather
    images_dir,        \* [exists, files]: <issue dir>/images
    ordered_files,     \* list returned by download_image_urls
    cbz,               \* the archive file: [state, entries]
    ret_val,           \* value the try block is returning with
    run_ret,           \* outcome of run() once finished
    \* download_image_urls, its tasks counted by position
    batch_pc,          \* position of download_image_urls
    batch_cnt,         \* per position of download_image: number of tasks there
    batch_sem,         \* image_download_semaphore._value
    \* Comic_Downloader.download
    orch_pc,                 \* position of download()
    max_concurrent_issues,   \* self._max_concurrent_issues
    issue,                   \* per comic issue: position and outcome of process_issue
    semaphore,               \* semaphore._value (line 168)
    cbz_paths,               \* the local of line 186
    download_ret,            \* what download() returned
    titles,                  \* per comic issue: its title
    \* ghost of run()
    cleaned,           \* cleanup() has been called in this run
    \* create_cbz called on its own
    asm_pc,            \* position of the call
    asm_ret,           \* how the call ended
    \* the scroll loop of extract_image_urls
    scroll_pc,         \* position in lines 84-105
    doc_height,        \* document.body.scrollHeight of the page
    viewport_height,   \* local of line 85
    scroll_height,     \* local of line 84, updated at line 99
    scroll_step,       \* local of line 88
    current_position,  \* local of line 87
    changes_left,      \* times the page can still change its height
    \* _sanitize_title and _sanitize_filename called on one title
    san_pc,            \* position of the calls
    san_title,         \* comic_issue.title
    dir_name,          \* result of _sanitize_title
    file_name,         \* result of _sanitize_filename
    \* the names of two pages of one issue
    name_pc,           \* position: fetched, archived
    pages              \* per page: index, content type, file name, entry name

exVars == <<ex_pc, domImages, encodedArr, hasDecoder, domUrls, jsUrls, urls, finalUrls>>

fetchVars == <<item, sem, results>>

runVars == <<run_pc, page_open, image_urls, item, sem, results, images_dir,
             ordered_files, cbz, ret_val, run_ret, cleaned>>

slotVars == <<batch_pc, batch_cnt, batch_sem>>

orchVars == <<orch_pc, max_concurrent_issues, issue, semaphore, cbz_paths, download_ret,
              titles>>

asmVars == <<asm_pc, asm_ret>>

scrollVars == <<scroll_pc, doc_height, viewport_height, scroll_height, scroll_step,
                current_position, changes_left>>

sanVars == <<san_pc, san_title, dir_name, file_name>>

nameVars == <<name_pc, pages>>

unitVars == <<scrollVars, sanVars, nameVars>>

vars == <<exVars, runVars, slotVars, orchVars, asmVars, unitVars>>

SeqsUpTo(S, n) == UNION {[1..k -> S] : k \in 0..n}

\* ------------------------------------------------------------------------
\* extract_image_urls: the script evaluated in the page
\* ------------------------------------------------------------------------

\* lines 138-149: a usable src is kept, anything else becomes null
DomUrlOf(src) == IF src # NoSrc /\ src # Placeholder THEN src ELSE null

DomUrlsOf(imgs) == [k \in 1..Len(imgs) |-> DomUrlOf(imgs[k])]

\* lines 154-169: with the page's decoder an entry is kept when the decoded
\* value is truthy and contains 'http'; without it the fallback concatenation
\* always yields a URL
RECURSIVE JsUrlsOf(_, _)
JsUrlsOf(dec, enc) ==
    IF enc = <<>> THEN <<>>
    ELSE LET e == Head(enc)
             rest == JsUrlsOf(dec, Tail(enc))
         IN IF dec
            THEN (IF e # null THEN <<e>> \o rest ELSE rest)
            ELSE <<FallbackBase + e>> \o rest

\* lines 173-182: the for loop over domUrls, state (i, jsIndex, urls)
RECURSIVE MergeLoop(_, _, _, _, _)
MergeLoop(dom, js, i, jsIndex, acc) ==
    IF i > Len(dom) THEN <<jsIndex, acc>>
    ELSE IF dom[i] # null
         THEN MergeLoop(dom, js, i + 1, jsIndex, Append(acc, dom[i]))
         ELSE IF jsIndex < Len(js)
              THEN MergeLoop(dom, js, i + 1, jsIndex + 1, Append(acc, js[jsIndex + 1]))
              ELSE MergeLoop(dom, js, i + 1, jsIndex, acc)

\* lines 185-188: while (jsIndex < jsUrls.length) push the rest
RECURSIVE AppendRest(_, _, _)
AppendRest(js, jsIndex, acc) ==
    IF jsIndex < Len(js)
    THEN AppendRest(js, jsIndex + 1, Append(acc, js[jsIndex + 1]))
    ELSE acc

MergeUrlsRestart(dom, js) ==
    LET r == MergeLoop(dom, js, 1, 0, <<>>)
    IN AppendRest(js, 0, r[2])

MergeUrls(dom, js) ==
    LET r == MergeLoop(dom, js, 1, 0, <<>>)
    IN AppendRest(js, r[1], r[2])

\* lines 191-198: keep a url when truthy and not seen before
RECURSIVE DedupLoop(_, _, _, _)
DedupLoop(us, k, seen, acc) ==
    IF k > Len(us) THEN acc
    ELSE IF us[k] # null /\ us[k] \notin seen
         THEN DedupLoop(us, k + 1, seen \cup {us[k]}, Append(acc, us[k]))
         ELSE DedupLoop(us, k + 1, seen, acc)

FinalUrlsKeepAll(us) == SelectSeq(us, LAMBDA u : u # null)

FinalUrlsOf(us) == DedupLoop(us, 1, {}, <<>>)

\* the variables of run() while no run is modelled
RunIdle ==
    /\ run_pc = "idle"
    /\ page_open = FALSE
    /\ image_urls = <<>>
    /\ item = <<>>
    /\ sem = AssetBound
    /\ results = <<>>
    /\ images_dir = [exists |-> FALSE, files |-> {}]
    /\ ordered_files = <<>>
    /\ cbz = [state |-> "absent", entries |-> <<>>]
    /\ ret_val = None
    /\ run_ret = "running"
    /\ cleaned = FALSE

AsmIdle ==
    /\ asm_pc = "idle"
    /\ asm_ret = "running"

ScrollIdle ==
    /\ scroll_pc = "idle"
    /\ doc_height = 0
    /\ viewport_height = 0
    /\ scroll_height = 0
    /\ scroll_step = 0
    /\ current_position = 0
    /\ changes_left = 0

SanIdle ==
    /\ san_pc = "idle"
    /\ san_title = <<>>
    /\ dir_name = <<>>
    /\ file_name = <<>>

NamesIdle ==
    /\ name_pc = "idle"
    /\ pages = <<>>

UnitIdle == ScrollIdle /\ SanIdle /\ NamesIdle

SlotsIdle ==
    /\ batch_pc = "idle"
    /\ batch_cnt = <<>>
    /\ batch_sem = AssetBound

OrchIdle ==
    /\ orch_pc = "idle"
    /\ max_concurrent_issues = 3
    /\ issue = <<>>
    /\ semaphore = 0
    /\ cbz_paths = <<>>
    /\ download_ret = [kind |-> "running"]
    /\ titles = <<>>

ExtractIdle ==
    /\ ex_pc = "idle"
    /\ domImages = <<>>
    /\ encodedArr = <<>>
    /\ hasDecoder = FALSE
    /\ domUrls = <<>>
    /\ jsUrls = <<>>
    /\ urls = <<>>
    /\ finalUrls = <<>>

InitExtract ==
    /\ RunIdle
    /\ SlotsIdle
    /\ OrchIdle
    /\ AsmIdle
    /\ UnitIdle
    /\ ex_pc = "rendered"
    /\ domImages \in SeqsUpTo(Urls \cup {NoSrc, Placeholder}, MaxDom)
    /\ encodedArr \in SeqsUpTo(Urls \cup {null}, MaxJs)
    /\ hasDecoder \in BOOLEAN
    /\ domUrls = <<>>
    /\ jsUrls = <<>>
    /\ urls = <<>>
    /\ finalUrls = <<>>

\* lines 130-202: page.evaluate of the ordering script
EvaluateOrderScript ==
    /\ ex_pc = "rendered"
    /\ domUrls' = DomUrlsOf(domImages)
    /\ jsUrls' = JsUrlsOf(hasDecoder, encodedArr)
    /\ urls' = MergeUrls(domUrls', jsUrls')
    /\ finalUrls' = FinalUrlsOf(urls')
    /\ ex_pc' = "extracted"
    /\ UNCHANGED <<domImages, encodedArr, hasDecoder>>
    /\ UNCHANGED <<runVars, slotVars, orchVars, asmVars, unitVars>>

NextExtract == EvaluateOrderScript

SpecExtract == InitExtract /\ [][NextExtract]_vars

\* ------------------------------------------------------------------------
\* names of the image files and of the archive entries
\* ------------------------------------------------------------------------
DigitChars == <<"0", "1", "2", "3", "4", "5", "6", "7", "8", "9">>

RECURSIVE Digits(_)
Digits(n) ==
    IF n < 10 THEN <<DigitChars[n + 1]>>
    ELSE Digits(n \div 10) \o <<DigitChars[(n % 10) + 1]>>

RECURSIVE ZeroPad(_, _)
ZeroPad(s, w) == IF Len(s) >= w THEN s ELSE ZeroPad(<<"0">> \o s, w)

ExtJpg == <<".", "j", "p", "g">>
ExtPng == <<".", "p", "n", "g">>
ExtGif == <<".", "g", "i", "f">>

CtJpeg == <<"i", "m", "a", "g", "e", "/", "j", "p", "e", "g">>
CtJpg == <<"i", "m", "a", "g", "e", "/", "j", "p", "g">>
CtPng == <<"i", "m", "a", "g", "e", "/", "p", "n", "g">>
CtGif == <<"i", "m", "a", "g", "e", "/", "g", "i", "f">>
CtWebp == <<"i", "m", "a", "g", "e", "/", "w", "e", "b", "p">>
CtMissing == <<>>        \* headers.get('content-type', '')

ContentTypes == {CtJpeg, CtJpg, CtPng, CtGif, CtWebp, CtMissing}

\* Python's  sub in s
IsSub(sub, s) ==
    \E k \in 0..(Len(s) - Len(sub)) : SubSeq(s, k + 1, k + Len(sub)) = sub

ExtOfPngFirst(content_type) ==
    IF IsSub(<<"p", "n", "g">>, content_type)
    THEN ExtPng
    ELSE IF IsSub(<<"j", "p", "e", "g">>, content_type) \/ IsSub(<<"j", "p", "g">>, content_type)
         THEN ExtJpg
         ELSE IF IsSub(<<"g", "i", "f">>, content_type)
              THEN ExtGif
              ELSE ExtJpg

\* lines 239-248
ExtOf(content_type) ==
    IF IsSub(<<"j", "p", "e", "g">>, content_type) \/ IsSub(<<"j", "p", "g">>, content_type)
    THEN ExtJpg
    ELSE IF IsSub(<<"p", "n", "g">>, content_type)
         THEN ExtPng
         ELSE IF IsSub(<<"g", "i", "f">>, content_type)
              THEN ExtGif
              ELSE ExtJpg

PageNameUnpadded(index, ext) ==
    <<"p", "a", "g", "e", "_">> \o Digits(index) \o ext

\* f"page_{image_index:03d}{ext}"
PageName(index, ext) ==
    <<"p", "a", "g", "e", "_">> \o ZeroPad(Digits(index), PadWidth) \o ext

\* pathlib's PurePath.suffix: from the last dot of the name, when that dot is
\* neither the first nor the last character
Suffix(name) ==
    LET dots == {k \in 1..Len(name) : name[k] = "."}
        last == IF dots = {} THEN 0 ELSE CHOOSE k \in dots : \A j \in dots : j <= k
    IN IF last <= 1 \/ last = Len(name) THEN <<>> ELSE SubSeq(name, last, Len(name))

\* open(file_path, "wb") followed by write: the file holds data afterwards
WriteFile(files, name, data) ==
    {f \in files : f.name # name} \cup {[name |-> name, data |-> data]}

Truncated == 0           \* content of a file opened "wb" whose write failed

\* ------------------------------------------------------------------------
\* download_image_urls
\* ------------------------------------------------------------------------
\* enumerate(urls): image_index of the k-th URL is k - 1
UrlIndices(us) == 0..(Len(us) - 1)

\* the download_image tasks created at line 272
Indices == DOMAIN item

ResNone == [kind |-> "None"]
ResRunning == [kind |-> "running"]
ResTuple(index, name) == [kind |-> "tuple", val |-> <<index, name>>]

Terminal(i) == item[i].st \in {"ok", "failed"}

\* line 276-280: keep the results that are tuples, in gather's (task) order
RECURSIVE FilterResults(_, _, _)
FilterResults(res, k, n) ==
    IF k >= n THEN <<>>
    ELSE IF res[k].kind = "tuple"
         THEN <<res[k].val>> \o FilterResults(res, k + 1, n)
         ELSE FilterResults(res, k + 1, n)

InsertByIndexDescending(sorted, x) ==
    LET k == Cardinality({j \in 1..Len(sorted) : sorted[j][1] >= x[1]})
    IN SubSeq(sorted, 1, k) \o <<x>> \o SubSeq(sorted, k + 1, Len(sorted))

\* list.sort(key=lambda x: x[0]): stable, ascending
InsertByIndex(sorted, x) ==
    LET k == Cardinality({j \in 1..Len(sorted) : sorted[j][1] <= x[1]})
    IN SubSeq(sorted, 1, k) \o <<x>> \o SubSeq(sorted, k + 1, Len(sorted))

RECURSIVE SortLoop(_, _, _)
SortLoop(xs, k, acc) ==
    IF k > Len(xs) THEN acc ELSE SortLoop(xs, k + 1, InsertByIndex(acc, xs[k]))

SortByIndex(xs) == SortLoop(xs, 1, <<>>)

\* lines 213-220: entry of download_image_urls; the tasks are created at 272
DownloadImageUrls ==
    /\ run_pc = "download"
    /\ IF image_urls = <<>>
       THEN /\ ordered_files' = <<>>
            /\ run_pc' = "check"
            /\ UNCHANGED fetchVars
       ELSE /\ sem' = AssetBound
            /\ item' = [i \in UrlIndices(image_urls) |-> [st |-> "pending", attempt |-> 0]]
            /\ results' = [i \in UrlIndices(image_urls) |-> ResRunning]
            /\ run_pc' = "fetching"
            /\ UNCHANGED ordered_files
    /\ UNCHANGED <<page_open, image_urls, images_dir, cbz, ret_val, run_ret>>
    /\ UNCHANGED <<cleaned, exVars, slotVars, orchVars, asmVars, unitVars>>

CanAcquireAlways(s) == TRUE

\* line 224: async with image_download_semaphore (acquire)
CanAcquire(s) == s > 0

AcquireSlot(i) ==
    /\ run_pc = "fetching"
    /\ item[i].st = "pending"
    /\ CanAcquire(sem)
    /\ sem' = sem - 1
    /\ item' = [item EXCEPT ![i] = [st |-> "get", attempt |-> 0]]
    /\ UNCHANGED <<run_pc, page_open, image_urls, results, images_dir,
                   ordered_files, cbz, ret_val, run_ret>>
    /\ UNCHANGED <<cleaned, exVars, slotVars, orchVars, asmVars, unitVars>>

SuccessResultSharedIndex(image_index, name) == ResTuple(0, name)

\* value returned by download_image on success (line 260)
SuccessResult(image_index, name) == ResTuple(image_index, name)

\* lines 230-260: the GET, the read and the file write all succeed
AttemptSucceeds(i, content_type) ==
    /\ run_pc = "fetching"
    /\ item[i].st = "get"
    /\ LET name == PageName(i, ExtOf(content_type))
       IN /\ images_dir' = [images_dir EXCEPT
                               !.files = WriteFile(@, name, image_urls[i + 1])]
          /\ results' = [results EXCEPT ![i] = SuccessResult(i, name)]
    /\ item' = [item EXCEPT ![i].st = "ok"]
    /\ sem' = sem + 1
    /\ UNCHANGED <<run_pc, page_open, image_urls, ordered_files, cbz, ret_val, run_ret>>
    /\ UNCHANGED <<cleaned, exVars, slotVars, orchVars, asmVars, unitVars>>

IsLastAttemptEarly(attempt) == attempt >= max_retries - 2

IsLastAttemptLate(attempt) == attempt = max_retries

\* line 263
IsLastAttempt(attempt) == attempt = max_retries - 1

FailureResultAsPair(image_index) == ResTuple(image_index, PageName(image_index, ExtJpg))

\* line 265: return None
FailureResult(image_index) == ResNone

\* lines 262-267: what the except clause does after a failed attempt
AfterFailure(i) ==
    IF IsLastAttempt(item[i].attempt)
    THEN /\ item' = [item EXCEPT ![i].st = "failed"]
         /\ results' = [results EXCEPT ![i] = FailureResult(i)]
         /\ sem' = sem + 1
    ELSE /\ item' = [item EXCEPT ![i].st = "sleep"]
         /\ UNCHANGED <<results, sem>>

\* the GET fails: transport error, timeout, or raise_for_status
RequestFails(i) ==
    /\ run_pc = "fetching"
    /\ item[i].st = "get"
    /\ AfterFailure(i)
    /\ UNCHANGED <<run_pc, page_open, image_urls, images_dir, ordered_files,
                   cbz, ret_val, run_ret>>
    /\ UNCHANGED <<cleaned, exVars, slotVars, orchVars, asmVars, unitVars>>

\* the response is fine but writing the file raises after open(..., "wb")
WriteFails(i, content_type) ==
    /\ run_pc = "fetching"
    /\ item[i].st = "get"
    /\ images_dir' = [images_dir EXCEPT
                         !.files = WriteFile(@, PageName(i, ExtOf(content_type)), Truncated)]
    /\ AfterFailure(i)
    /\ UNCHANGED <<run_pc, page_open, image_urls, ordered_files, cbz, ret_val, run_ret>>
    /\ UNCHANGED <<cleaned, exVars, slotVars, orchVars, asmVars, unitVars>>

\* line 267: asyncio.sleep(2) is over, the for loop takes the next attempt
RetryAfterSleep(i) ==
    /\ run_pc = "fetching"
    /\ item[i].st = "sleep"
    /\ item' = [item EXCEPT ![i] = [st |-> "get", attempt |-> @.attempt + 1]]
    /\ UNCHANGED <<run_pc, page_open, image_urls, sem, results, images_dir,
                   ordered_files, cbz, ret_val, run_ret>>
    /\ UNCHANGED <<cleaned, exVars, slotVars, orchVars, asmVars, unitVars>>

GatherDoneFirstCompleted == \E i \in Indices : Terminal(i)

\* line 273: gather completes when every task has finished
GatherDone == \A i \in Indices : Terminal(i)

\* lines 273-286
GatherAndReturn ==
    /\ run_pc = "fetching"
    /\ GatherDone
    /\ ordered_files' = SortByIndex(FilterResults(results, 0, Len(image_urls)))
    /\ run_pc' = "check"
    /\ UNCHANGED <<page_open, image_urls, item, sem, results, images_dir,
                   cbz, ret_val, run_ret>>
    /\ UNCHANGED <<cleaned, exVars, slotVars, orchVars, asmVars, unitVars>>

\* ------------------------------------------------------------------------
\* create_cbz and cleanup
\* ------------------------------------------------------------------------
CbzPath == "cbz_path"

FileData(files, name) == (CHOOSE f \in files : f.name = name).data

\* cbz.write(img_file, ...) needs every listed file on disk
AllFilesExist(pairs, files) ==
    \A k \in 1..Len(pairs) : \E f \in files : f.name = pairs[k][2]

\* lines 305-309: one entry per pair, in list order; index is kept beside
\* the name to tell which pair an entry was written from
ArchiveNameNoIndex(index, img_file) ==
    <<"p", "a", "g", "e", "_">> \o ZeroPad(<<>>, PadWidth) \o Suffix(img_file)

ArchiveName(index, img_file) ==
    <<"p", "a", "g", "e", "_">> \o ZeroPad(Digits(index), PadWidth) \o Suffix(img_file)

CbzEntriesReversed(pairs, files) ==
    [k \in 1..Len(pairs) |->
        [name |-> ArchiveName(pairs[Len(pairs) + 1 - k][1], pairs[Len(pairs) + 1 - k][2]),
         data |-> FileData(files, pairs[Len(pairs) + 1 - k][2]),
         index |-> pairs[Len(pairs) + 1 - k][1]]]

CbzEntriesRenumbered(pairs, files) ==
    [k \in 1..Len(pairs) |->
        [name |-> ArchiveName(k - 1, pairs[k][2]),
         data |-> FileData(files, pairs[k][2]),
         index |-> pairs[k][1]]]

\* ZipFile(output_file, "a"): the entries already in the archive stay
CbzEntriesAppendMode(pairs, files) ==
    cbz.entries \o
    [k \in 1..Len(pairs) |->
        [name |-> ArchiveName(pairs[k][1], pairs[k][2]),
         data |-> FileData(files, pairs[k][2]),
         index |-> pairs[k][1]]]

CbzEntries(pairs, files) ==
    [k \in 1..Len(pairs) |->
        [name |-> ArchiveName(pairs[k][1], pairs[k][2]),
         data |-> FileData(files, pairs[k][2]),
         index |-> pairs[k][1]]]

\* shutil.rmtree stopped by an error: the directory stays, with its files
\* untouched or already removed
RmtreeFails ==
    /\ images_dir.exists
    /\ \E left \in {images_dir.files, {}} :
          images_dir' = [images_dir EXCEPT !.files = left]

\* lines 317-318
RmtreeDone == images_dir' = [exists |-> FALSE, files |-> {}]

\* ------------------------------------------------------------------------
\* Comic_Issue_Automation.run
\* ------------------------------------------------------------------------
InitRun ==
    /\ ExtractIdle
    /\ SlotsIdle
    /\ OrchIdle
    /\ AsmIdle
    /\ UnitIdle
    /\ run_pc = "new_page"
    /\ page_open = FALSE
    /\ image_urls = <<>>
    /\ item = <<>>
    /\ sem = AssetBound
    /\ results = <<>>
    /\ images_dir = [exists |-> TRUE, files |-> {}]     \* mkdir in __init__
    /\ ordered_files = <<>>
    /\ cbz = [state |-> "absent", entries |-> <<>>]
    /\ ret_val = None
    /\ run_ret = "running"
    /\ cleaned = FALSE

\* line 326, outside the try block
NewPage ==
    /\ run_pc = "new_page"
    /\ \/ /\ page_open' = TRUE
          /\ run_pc' = "open_issue"
          /\ UNCHANGED run_ret
       \/ /\ run_pc' = "done"
          /\ run_ret' = Raised
          /\ UNCHANGED page_open
    /\ UNCHANGED <<image_urls, item, sem, results, images_dir, ordered_files, cbz, ret_val>>
    /\ UNCHANGED <<cleaned, exVars, slotVars, orchVars, asmVars, unitVars>>

\* line 335
OpenIssue ==
    /\ run_pc = "open_issue"
    /\ run_pc' \in {"extract", "except"}
    /\ UNCHANGED <<page_open, image_urls, item, sem, results, images_dir,
                   ordered_files, cbz, ret_val, run_ret>>
    /\ UNCHANGED <<cleaned, exVars, slotVars, orchVars, asmVars, unitVars>>

\* line 339: the page shows some images and some encoded array.  URL ids are
\* only names, so pages are taken up to renaming: the k-th distinct URL of
\* the resulting list is called k.
ExtractImageUrls ==
    /\ run_pc = "extract"
    /\ \/ \E imgs \in SeqsUpTo(Urls \cup {NoSrc, Placeholder}, MaxDom),
             enc \in SeqsUpTo(Urls \cup {null}, MaxJs),
             dec \in BOOLEAN :
             LET found == FinalUrlsOf(MergeUrls(DomUrlsOf(imgs), JsUrlsOf(dec, enc)))
             IN /\ Len(found) <= MaxUrls
                /\ found = [k \in 1..Len(found) |-> k]
                /\ image_urls' = found
                /\ run_pc' = "download"
       \/ /\ run_pc' = "except"
          /\ UNCHANGED image_urls
    /\ UNCHANGED <<page_open, item, sem, results, images_dir, ordered_files,
                   cbz, ret_val, run_ret>>
    /\ UNCHANGED <<cleaned, exVars, slotVars, orchVars, asmVars, unitVars>>

IsEmptyResultNever(files) == FALSE

\* line 345: not ordered_files
IsEmptyResult(files) == files = <<>>

\* lines 345-347
CheckOrderedFiles ==
    /\ run_pc = "check"
    /\ IF IsEmptyResult(ordered_files)
       THEN /\ ret_val' = None
            /\ run_pc' = "finally"
       ELSE /\ run_pc' = "create_cbz"
            /\ UNCHANGED ret_val
    /\ UNCHANGED <<page_open, image_urls, item, sem, results, images_dir,
                   ordered_files, cbz, run_ret>>
    /\ UNCHANGED <<cleaned, exVars, slotVars, orchVars, asmVars, unitVars>>

\* lines 351-353 running create_cbz (lines 296-313)
CreateCbz ==
    /\ run_pc = "create_cbz"
    /\ \/ /\ ordered_files # <<>>
          /\ AllFilesExist(ordered_files, images_dir.files)
          /\ cbz' = [state |-> "closed",
                     entries |-> CbzEntries(ordered_files, images_dir.files)]
          /\ ret_val' = CbzPath
          /\ run_pc' = "cleanup"
       \/ /\ ordered_files = <<>>                  \* line 302: ValueError
          /\ run_pc' = "except"
          /\ UNCHANGED <<cbz, ret_val>>
       \/ /\ ordered_files # <<>>                  \* the archive cannot be opened
          /\ run_pc' = "except"
          /\ UNCHANGED <<cbz, ret_val>>
       \/ /\ ordered_files # <<>>                  \* an error while writing entries
          /\ \E k \in 0..(Len(ordered_files) - 1) :
                /\ AllFilesExist(SubSeq(ordered_files, 1, k), images_dir.files)
                /\ cbz' = [state |-> "partial",
                           entries |-> CbzEntries(SubSeq(ordered_files, 1, k), images_dir.files)]
          /\ run_pc' = "except"
          /\ UNCHANGED ret_val
    /\ UNCHANGED <<page_open, image_urls, item, sem, results, images_dir,
                   ordered_files, run_ret>>
    /\ UNCHANGED <<cleaned, exVars, slotVars, orchVars, asmVars, unitVars>>

\* lines 357-362
Cleanup ==
    /\ run_pc = "cleanup"
    /\ \/ /\ IF images_dir.exists THEN RmtreeDone ELSE UNCHANGED images_dir
          /\ run_pc' = "finally"
       \/ /\ RmtreeFails
          /\ run_pc' = "except"
    /\ cleaned' = TRUE
    /\ UNCHANGED <<page_open, image_urls, item, sem, results, ordered_files,
                   cbz, ret_val, run_ret>>
    /\ UNCHANGED <<exVars, slotVars, orchVars, asmVars, unitVars>>

\* lines 363-372
ExceptHandler ==
    /\ run_pc = "except"
    /\ \/ IF images_dir.exists THEN RmtreeDone ELSE UNCHANGED images_dir
       \/ RmtreeFails
    /\ cleaned' = TRUE
    /\ ret_val' = None
    /\ run_pc' = "finally"
    /\ UNCHANGED <<page_open, image_urls, item, sem, results, ordered_files, cbz, run_ret>>
    /\ UNCHANGED <<exVars, slotVars, orchVars, asmVars, unitVars>>

\* lines 374-375
FinallyClosePage ==
    /\ run_pc = "finally"
    /\ run_pc' = "done"
    /\ \/ /\ page_open' = FALSE
          /\ run_ret' = ret_val
       \/ /\ run_ret' = Raised
          /\ UNCHANGED page_open
    /\ UNCHANGED <<image_urls, item, sem, results, images_dir, ordered_files, cbz, ret_val>>
    /\ UNCHANGED <<cleaned, exVars, slotVars, orchVars, asmVars, unitVars>>

Init == InitRun

Next ==
    \/ NewPage
    \/ OpenIssue
    \/ ExtractImageUrls
    \/ DownloadImageUrls
    \/ \E i \in Indices : AcquireSlot(i)
    \/ \E i \in Indices, ct \in ContentTypes : AttemptSucceeds(i, ct)
    \/ \E i \in Indices : RequestFails(i)
    \/ \E i \in Indices, ct \in ContentTypes : WriteFails(i, ct)
    \/ \E i \in Indices : RetryAfterSleep(i)
    \/ GatherAndReturn
    \/ CheckOrderedFiles
    \/ CreateCbz
    \/ Cleanup
    \/ ExceptHandler
    \/ FinallyClosePage

Spec == Init /\ [][Next]_vars

\* a run over the directory of a former run of the same issue that left
\* files behind (line 36: mkdir(exist_ok=True)) and an archive at output_file
LeftoverFiles ==
    {[name |-> PageName(0, ExtPng), data |-> Truncated],
     [name |-> PageName(1, ExtJpg), data |-> 2]}

InitRerun ==
    /\ ExtractIdle
    /\ SlotsIdle
    /\ OrchIdle
    /\ AsmIdle
    /\ UnitIdle
    /\ run_pc = "new_page"
    /\ page_open = FALSE
    /\ image_urls = <<>>
    /\ item = <<>>
    /\ sem = AssetBound
    /\ results = <<>>
    /\ images_dir = [exists |-> TRUE, files |-> LeftoverFiles]
    /\ ordered_files = <<>>
    /\ cbz = [state |-> "closed",
              entries |-> <<[name |-> PageName(0, ExtGif), data |-> 0, index |-> 0]>>]
    /\ ret_val = None
    /\ run_ret = "running"
    /\ cleaned = FALSE

SpecRerun == InitRerun /\ [][Next]_vars

\* ------------------------------------------------------------------------
\* download_image_urls with a long URL list: the tasks of one batch run the
\* same code, so the batch is described by how many tasks are at each
\* position of download_image
\* ------------------------------------------------------------------------
Attempts == 0..(max_retries - 1)

Pos(st, attempt) == [st |-> st, attempt |-> attempt]

ItemPositions ==
    {Pos("pending", 0)}
        \cup {Pos(st, a) : st \in {"get", "sleep", "ok", "failed"}, a \in Attempts}

Moved(from, to) ==
    batch_cnt' = [batch_cnt EXCEPT ![from] = @ - 1, ![to] = batch_cnt[to] + 1]

\* lines 213-220 and 272: a non-empty list, one pending task per URL
InitSlots ==
    /\ ExtractIdle
    /\ RunIdle
    /\ OrchIdle
    /\ AsmIdle
    /\ UnitIdle
    /\ batch_pc = "fetching"
    /\ batch_sem = AssetBound
    /\ \E n \in 1..MaxBatch :
          batch_cnt = [p \in ItemPositions |-> IF p = Pos("pending", 0) THEN n ELSE 0]

\* line 224
SlotsAcquire ==
    /\ batch_pc = "fetching"
    /\ batch_cnt[Pos("pending", 0)] > 0
    /\ CanAcquire(batch_sem)
    /\ batch_sem' = batch_sem - 1
    /\ Moved(Pos("pending", 0), Pos("get", 0))
    /\ UNCHANGED <<batch_pc, exVars, runVars, orchVars, asmVars, unitVars>>

\* lines 230-260
SlotsAttemptSucceeds(a) ==
    /\ batch_pc = "fetching"
    /\ batch_cnt[Pos("get", a)] > 0
    /\ Moved(Pos("get", a), Pos("ok", a))
    /\ batch_sem' = batch_sem + 1
    /\ UNCHANGED <<batch_pc, exVars, runVars, orchVars, asmVars, unitVars>>

SlotsAttemptFailsKeepsSlot(a) ==
    /\ batch_pc = "fetching"
    /\ batch_cnt[Pos("get", a)] > 0
    /\ IF IsLastAttempt(a)
       THEN Moved(Pos("get", a), Pos("failed", a))
       ELSE Moved(Pos("get", a), Pos("sleep", a))
    /\ UNCHANGED <<batch_pc, batch_sem, exVars, runVars, orchVars, asmVars, unitVars>>

\* lines 262-267
SlotsAttemptFails(a) ==
    /\ batch_pc = "fetching"
    /\ batch_cnt[Pos("get", a)] > 0
    /\ IF IsLastAttempt(a)
       THEN /\ Moved(Pos("get", a), Pos("failed", a))
            /\ batch_sem' = batch_sem + 1
       ELSE /\ Moved(Pos("get", a), Pos("sleep", a))
            /\ UNCHANGED batch_sem
    /\ UNCHANGED <<batch_pc, exVars, runVars, orchVars, asmVars, unitVars>>

\* line 267, then the next turn of the for loop
SlotsRetryAfterSleep(a) ==
    /\ batch_pc = "fetching"
    /\ a + 1 \in Attempts
    /\ batch_cnt[Pos("sleep", a)] > 0
    /\ Moved(Pos("sleep", a), Pos("get", a + 1))
    /\ UNCHANGED <<batch_pc, batch_sem, exVars, runVars, orchVars, asmVars, unitVars>>

\* lines 273-286
SlotsGatherAndReturn ==
    /\ batch_pc = "fetching"
    /\ \A p \in ItemPositions : p.st \notin {"ok", "failed"} => batch_cnt[p] = 0
    /\ batch_pc' = "returned"
    /\ UNCHANGED <<batch_cnt, batch_sem, exVars, runVars, orchVars, asmVars, unitVars>>

NextSlots ==
    \/ SlotsAcquire
    \/ \E a \in Attempts : SlotsAttemptSucceeds(a)
    \/ \E a \in Attempts : SlotsAttemptFails(a)
    \/ \E a \in Attempts : SlotsRetryAfterSleep(a)
    \/ SlotsGatherAndReturn

SpecSlots == InitSlots /\ [][NextSlots]_vars

\* ------------------------------------------------------------------------
\* Comic_Downloader.download and process_issue.  The run() of an issue is
\* followed through its stages: "extract" (new page, open_issue,
\* extract_image_urls), "fetch" (download_image_urls) and "assemble"
\* (create_cbz, cleanup, page.close); its image semaphore is private to it.
\* ------------------------------------------------------------------------
Issues == DOMAIN issue

Stages == {"extract", "fetch", "assemble"}

IssueAt(pc, out) == [pc |-> pc, out |-> out]

Done(out) == IssueAt("done", out)

OutPath == "path"               \* process_issue returned the cbz path
OutNoneExtract == "None_extract" \* None: the page could not be rendered or read
OutNone == "None"               \* None for any other reason
OutRaised == "exception"         \* process_issue raised; gather keeps the exception

InitOrch ==
    /\ ExtractIdle
    /\ RunIdle
    /\ SlotsIdle
    /\ AsmIdle
    /\ UnitIdle
    /\ orch_pc = "listing"
    /\ max_concurrent_issues \in 1..MaxConcurrent
    /\ issue = <<>>
    /\ semaphore = 0
    /\ cbz_paths = <<>>
    /\ download_ret = [kind |-> "running"]
    /\ titles = <<>>

\* lines 133-186 up to the gather: list the issues, create semaphore and tasks
GetIssuesAndStart ==
    /\ orch_pc = "listing"
    /\ \/ \E n \in 1..MaxIssues :
             /\ issue' = [i \in 1..n |-> IssueAt("queued", "running")]
             /\ semaphore' = max_concurrent_issues
             /\ orch_pc' = "gather"
             /\ UNCHANGED download_ret
       \/ /\ orch_pc' = "returned"               \* lines 157-160: no issues
          /\ download_ret' = [kind |-> "None"]
          /\ UNCHANGED <<issue, semaphore>>
       \/ /\ orch_pc' = "returned"               \* the listing page fails
          /\ download_ret' = [kind |-> "raised"]
          /\ UNCHANGED <<issue, semaphore>>
    /\ UNCHANGED <<max_concurrent_issues, cbz_paths, titles, exVars, runVars, slotVars, asmVars, unitVars>>

CanEnterAlways(s) == TRUE

CanEnterAboveOne(s) == s > 1

\* line 106: async with semaphore (acquire)
CanEnter(s) == s > 0

\* lines 106-119: take a slot, make the issue directory and the automation,
\* start run(); an error of mkdir leaves process_issue at once
EnterIssue(i) ==
    /\ orch_pc = "gather"
    /\ issue[i].pc = "queued"
    /\ CanEnter(semaphore)
    /\ \/ /\ issue' = [issue EXCEPT ![i] = IssueAt("extract", "running")]
          /\ semaphore' = semaphore - 1
       \/ /\ issue' = [issue EXCEPT ![i] = Done(OutRaised)]
          /\ UNCHANGED semaphore
    /\ UNCHANGED <<orch_pc, max_concurrent_issues, cbz_paths, download_ret,
                   titles, exVars, runVars, slotVars, asmVars, unitVars>>

\* run() lines 326-339; on an error run gives None (or raises, which
\* process_issue turns into None at lines 121-123) and the slot is released
ExtractStage(i) ==
    /\ orch_pc = "gather"
    /\ issue[i].pc = "extract"
    /\ \/ /\ issue' = [issue EXCEPT ![i] = IssueAt("fetch", "running")]
          /\ UNCHANGED semaphore
       \/ /\ issue' = [issue EXCEPT ![i] = Done(OutNoneExtract)]
          /\ semaphore' = semaphore + 1
    /\ UNCHANGED <<orch_pc, max_concurrent_issues, cbz_paths, download_ret,
                   titles, exVars, runVars, slotVars, asmVars, unitVars>>

\* run() lines 343-347: the batch gives some files, or none
FetchStage(i) ==
    /\ orch_pc = "gather"
    /\ issue[i].pc = "fetch"
    /\ \/ /\ issue' = [issue EXCEPT ![i] = IssueAt("assemble", "running")]
          /\ UNCHANGED semaphore
       \/ /\ issue' = [issue EXCEPT ![i] = Done(OutNone)]
          /\ semaphore' = semaphore + 1
    /\ UNCHANGED <<orch_pc, max_concurrent_issues, cbz_paths, download_ret,
                   titles, exVars, runVars, slotVars, asmVars, unitVars>>

\* run() lines 351-375 and process_issue lines 120-123
AssembleStage(i) ==
    /\ orch_pc = "gather"
    /\ issue[i].pc = "assemble"
    /\ \E out \in {OutPath, OutNone} : issue' = [issue EXCEPT ![i] = Done(out)]
    /\ semaphore' = semaphore + 1
    /\ UNCHANGED <<orch_pc, max_concurrent_issues, cbz_paths, download_ret,
                   titles, exVars, runVars, slotVars, asmVars, unitVars>>

\* line 186: gather(*tasks, return_exceptions=True), then the end of download
GatherIssues ==
    /\ orch_pc = "gather"
    /\ \A i \in Issues : issue[i].pc = "done"
    /\ cbz_paths' = [i \in Issues |-> issue[i].out]
    /\ download_ret' = [kind |-> "None"]
    /\ orch_pc' = "returned"
    /\ UNCHANGED <<max_concurrent_issues, issue, semaphore, titles, exVars, runVars, slotVars, asmVars, unitVars>>

NextOrch ==
    \/ GetIssuesAndStart
    \/ \E i \in Issues : EnterIssue(i)
    \/ \E i \in Issues : ExtractStage(i)
    \/ \E i \in Issues : FetchStage(i)
    \/ \E i \in Issues : AssembleStage(i)
    \/ GatherIssues

SpecOrch == InitOrch /\ [][NextOrch]_vars

\* ------------------------------------------------------------------------
\* The directory of an issue.  A title is a sequence of characters; the
\* directory name is what _sanitize_title makes of it.
\* ------------------------------------------------------------------------
InvalidChars == {"<", ">", ":", "\"", "/", "\\", "|", "?", "*"}

\* line 39: re.sub(r'[<>:"/\\|?*]', '_', title)
ReplaceInvalid(title) ==
    [k \in DOMAIN title |-> IF title[k] \in InvalidChars THEN "_" ELSE title[k]]

StripChars == {".", " "}

RECURSIVE LStrip(_)
LStrip(title) ==
    IF title # <<>> /\ Head(title) \in StripChars THEN LStrip(Tail(title)) ELSE title

RECURSIVE RStrip(_)
RStrip(title) ==
    IF title # <<>> /\ title[Len(title)] \in StripChars
    THEN RStrip(SubSeq(title, 1, Len(title) - 1))
    ELSE title

\* line 41: title.strip(". ")
Strip(title) == RStrip(LStrip(title))

TitleCap == 100

\* lines 43-44: if len(title) > 100: title = title[:100]
Truncate(title) == IF Len(title) > TitleCap THEN SubSeq(title, 1, TitleCap) ELSE title

sanitize_title(title) == Truncate(Strip(ReplaceInvalid(title)))

\* a title of TitleCap + 1 characters ending in c
LongTitle(c) == [k \in 1..(TitleCap + 1) |-> IF k <= TitleCap THEN "x" ELSE c]

\* titles a series page can list
TitleSet ==
    {<<"a", ":", "b">>, <<"a", "?", "b">>, <<"a", "b">>, <<"a", "b", ".">>,
     <<" ", "a", "b">>, <<"c">>, LongTitle("1"), LongTitle("2")}

\* line 108: issue_dir = series_dir / self._sanitize_title(comic_issue.title)
issue_dir(i) == sanitize_title(titles[i])

\* the lists of n titles, no title twice
TitleLists(n) ==
    {ts \in [1..n -> TitleSet] : \A i, j \in 1..n : i # j => ts[i] # ts[j]}

InitDirs ==
    /\ ExtractIdle
    /\ RunIdle
    /\ SlotsIdle
    /\ AsmIdle
    /\ UnitIdle
    /\ orch_pc = "listing"
    /\ max_concurrent_issues \in 1..MaxConcurrent
    /\ issue = <<>>
    /\ semaphore = 0
    /\ cbz_paths = <<>>
    /\ download_ret = [kind |-> "running"]
    /\ titles = <<>>

\* lines 153-186 up to the gather, with the titles get_issues_from_series read
GetTitledIssues ==
    /\ orch_pc = "listing"
    /\ \/ \E n \in 1..MaxTitled : \E ts \in TitleLists(n) :
             /\ titles' = ts
             /\ issue' = [i \in 1..n |-> IssueAt("queued", "running")]
             /\ semaphore' = max_concurrent_issues
             /\ orch_pc' = "gather"
             /\ UNCHANGED download_ret
       \/ /\ orch_pc' = "returned"               \* lines 157-160: no issues
          /\ download_ret' = [kind |-> "None"]
          /\ UNCHANGED <<issue, semaphore, titles>>
       \/ /\ orch_pc' = "returned"               \* the listing page fails
          /\ download_ret' = [kind |-> "raised"]
          /\ UNCHANGED <<issue, semaphore, titles>>
    /\ UNCHANGED <<max_concurrent_issues, cbz_paths, exVars, runVars, slotVars, asmVars, unitVars>>

NextDirs ==
    \/ GetTitledIssues
    \/ \E i \in Issues : EnterIssue(i)
    \/ \E i \in Issues : ExtractStage(i)
    \/ \E i \in Issues : FetchStage(i)
    \/ \E i \in Issues : AssembleStage(i)
    \/ GatherIssues

SpecDirs == InitDirs /\ [][NextDirs]_vars

\* ------------------------------------------------------------------------
\* The two semaphore tiers under fair scheduling.  The event loop runs a
\* task that is ready: a step of the batch or of the download call that
\* stays possible is taken at some time.  An await that is pending (an HTTP
\* attempt, a sleep, a renderer call, a file operation) ends at some time,
\* and a waiter of a semaphore is woken when a slot is released.
\* ------------------------------------------------------------------------
InitLiveSlots ==
    /\ ExtractIdle
    /\ RunIdle
    /\ OrchIdle
    /\ AsmIdle
    /\ UnitIdle
    /\ batch_pc = "fetching"
    /\ batch_sem = AssetBound
    /\ batch_cnt = [p \in ItemPositions |-> IF p = Pos("pending", 0) THEN LiveBatch ELSE 0]

InitLiveOrch ==
    /\ ExtractIdle
    /\ RunIdle
    /\ SlotsIdle
    /\ AsmIdle
    /\ UnitIdle
    /\ orch_pc = "listing"
    /\ max_concurrent_issues \in 1..LiveConcurrent
    /\ issue = <<>>
    /\ semaphore = 0
    /\ cbz_paths = <<>>
    /\ download_ret = [kind |-> "running"]
    /\ titles = <<>>

InitLive == InitLiveSlots \/ InitLiveOrch

\* lines 133-186 up to the gather, for a series of at most LiveIssues issues
GetIssuesLive ==
    /\ orch_pc = "listing"
    /\ \/ \E n \in 1..LiveIssues :
             /\ issue' = [i \in 1..n |-> IssueAt("queued", "running")]
             /\ semaphore' = max_concurrent_issues
             /\ orch_pc' = "gather"
             /\ UNCHANGED download_ret
       \/ /\ orch_pc' = "returned"               \* lines 157-160: no issues
          /\ download_ret' = [kind |-> "None"]
          /\ UNCHANGED <<issue, semaphore>>
       \/ /\ orch_pc' = "returned"               \* the listing page fails
          /\ download_ret' = [kind |-> "raised"]
          /\ UNCHANGED <<issue, semaphore>>
    /\ UNCHANGED <<max_concurrent_issues, cbz_paths, titles, exVars, runVars, slotVars, asmVars, unitVars>>

NextLiveOrch ==
    \/ GetIssuesLive
    \/ \E i \in Issues : EnterIssue(i)
    \/ \E i \in Issues : ExtractStage(i)
    \/ \E i \in Issues : FetchStage(i)
    \/ \E i \in Issues : AssembleStage(i)
    \/ GatherIssues

NextLive == NextSlots \/ NextLiveOrch

Fairness == WF_vars(NextSlots) /\ WF_vars(NextLiveOrch)

SpecLive == InitLive /\ [][NextLive]_vars /\ Fairness

\* ------------------------------------------------------------------------
\* create_cbz called on its own with any list of pairs
\* ------------------------------------------------------------------------
PairValues == {<<i, PageName(i, e)>> : i \in 0..MaxIndex, e \in {ExtJpg, ExtPng}}

\* an archive a former run left at output_file
OldArchive ==
    [state |-> "closed",
     entries |-> <<[name |-> PageName(0, ExtGif), data |-> 0, index |-> 0]>>]

NoArchive == [state |-> "absent", entries |-> <<>>]

InitCbz ==
    /\ ExtractIdle
    /\ SlotsIdle
    /\ OrchIdle
    /\ UnitIdle
    /\ run_pc = "idle"
    /\ page_open = FALSE
    /\ image_urls = <<>>
    /\ item = <<>>
    /\ sem = AssetBound
    /\ results = <<>>
    /\ ret_val = None
    /\ run_ret = "running"
    /\ cleaned = FALSE
    /\ asm_pc = "call"
    /\ asm_ret = "running"
    /\ ordered_files \in SeqsUpTo(PairValues, MaxPairs)
    /\ images_dir = [exists |-> TRUE,
                     files |-> {[name |-> ordered_files[k][2], data |-> ordered_files[k][1] + 1] :
                                   k \in 1..Len(ordered_files)}]
    /\ cbz \in {NoArchive, OldArchive}

RaisesBeforeOpenNever(pairs) == FALSE

\* lines 301-302, ahead of the ZipFile(...) of line 304
RaisesBeforeOpen(pairs) == pairs = <<>>

\* lines 288-313
CreateCbzCall ==
    /\ asm_pc = "call"
    /\ asm_pc' = "done"
    /\ IF RaisesBeforeOpen(ordered_files)
       THEN /\ asm_ret' = "ValueError"
            /\ UNCHANGED cbz
       ELSE \/ /\ AllFilesExist(ordered_files, images_dir.files)
               /\ cbz' = [state |-> "closed",
                          entries |-> CbzEntries(ordered_files, images_dir.files)]
               /\ asm_ret' = CbzPath
            \/ /\ asm_ret' = "OSError"              \* the archive cannot be opened
               /\ UNCHANGED cbz
            \/ /\ asm_ret' = "OSError"              \* an error while writing entries
               /\ \E k \in 0..(Len(ordered_files) - 1) :
                     /\ AllFilesExist(SubSeq(ordered_files, 1, k), images_dir.files)
                     /\ cbz' = [state |-> "partial",
                                entries |-> CbzEntries(SubSeq(ordered_files, 1, k),
                                                       images_dir.files)]
    /\ UNCHANGED <<run_pc, page_open, image_urls, item, sem, results, images_dir,
                   ordered_files, ret_val, run_ret, cleaned>>
    /\ UNCHANGED <<exVars, slotVars, orchVars, unitVars>>

NextCbz == CreateCbzCall

SpecCbz == InitCbz /\ [][NextCbz]_vars

\* ------------------------------------------------------------------------
\* The progressive scroll of extract_image_urls (lines 83-105).  The page
\* is its document height, which content loaded meanwhile can change.
\* ------------------------------------------------------------------------
InitScroll ==
    /\ ExtractIdle
    /\ RunIdle
    /\ SlotsIdle
    /\ OrchIdle
    /\ AsmIdle
    /\ SanIdle
    /\ NamesIdle
    /\ scroll_pc = "start"
    /\ doc_height \in 0..MaxHeight
    /\ viewport_height \in 0..MaxViewport
    /\ changes_left \in 0..MaxChanges
    /\ scroll_height = 0
    /\ scroll_step = 0
    /\ current_position = 0

\* lines 84-88: the two measurements, the position and the step
MeasurePage ==
    /\ scroll_pc = "start"
    /\ scroll_height' = doc_height
    /\ current_position' = 0
    /\ scroll_step' = viewport_height \div 2
    /\ scroll_pc' = "while"
    /\ UNCHANGED <<doc_height, viewport_height, changes_left>>
    /\ UNCHANGED <<exVars, runVars, slotVars, orchVars, asmVars, sanVars, nameVars>>

\* line 91: while current_position < scroll_height
LoopContinues(position, height) == position < height

\* lines 91-93: the loop test; in the loop scrollTo and the sleep of 0.5 s
WhileTest ==
    /\ scroll_pc = "while"
    /\ scroll_pc' = IF LoopContinues(current_position, scroll_height)
                    THEN "scrolled" ELSE "bottom"
    /\ UNCHANGED <<doc_height, viewport_height, scroll_height, scroll_step,
                   current_position, changes_left>>
    /\ UNCHANGED <<exVars, runVars, slotVars, orchVars, asmVars, sanVars, nameVars>>

\* the page while the coroutine waits: lazy loading changes the document height
PageChanges ==
    /\ scroll_pc \in {"while", "scrolled"}
    /\ changes_left > 0
    /\ \E h \in 0..MaxHeight : h # doc_height /\ doc_height' = h
    /\ changes_left' = changes_left - 1
    /\ UNCHANGED <<scroll_pc, viewport_height, scroll_height, scroll_step, current_position>>
    /\ UNCHANGED <<exVars, runVars, slotVars, orchVars, asmVars, sanVars, nameVars>>

\* lines 96-99: the height is re-measured and kept when it is larger
NewScrollHeight(old, new) == IF new > old THEN new ELSE old

\* lines 96-101: re-measure, then current_position += scroll_step
MeasureAndAdvance ==
    /\ scroll_pc = "scrolled"
    /\ scroll_height' = NewScrollHeight(scroll_height, doc_height)
    /\ current_position' = current_position + scroll_step
    /\ scroll_pc' = "while"
    /\ UNCHANGED <<doc_height, viewport_height, scroll_step, changes_left>>
    /\ UNCHANGED <<exVars, runVars, slotVars, orchVars, asmVars, sanVars, nameVars>>

\* lines 104-105: scroll to the bottom and sleep 1 s
ScrollToBottom ==
    /\ scroll_pc = "bottom"
    /\ scroll_pc' = "done"
    /\ UNCHANGED <<doc_height, viewport_height, scroll_height, scroll_step,
                   current_position, changes_left>>
    /\ UNCHANGED <<exVars, runVars, slotVars, orchVars, asmVars, sanVars, nameVars>>

NextScroll ==
    \/ MeasurePage
    \/ WhileTest
    \/ PageChanges
    \/ MeasureAndAdvance
    \/ ScrollToBottom

\* every await of the loop (page.evaluate, asyncio.sleep) ends, so the
\* coroutine takes its next step; the page is under no obligation to change
ScrollFairness ==
    WF_vars(MeasurePage \/ WhileTest \/ MeasureAndAdvance \/ ScrollToBottom)

SpecScroll == InitScroll /\ [][NextScroll]_vars /\ ScrollFairness

\* ------------------------------------------------------------------------
\* _sanitize_title (directory name) and _sanitize_filename (archive name)
\* applied to the title of one issue
\* ------------------------------------------------------------------------
FileCap == 200

\* comic_issue_automation.py lines 39-48: the same steps with a cap of 200
sanitize_filename(filename) ==
    LET stripped == Strip(ReplaceInvalid(filename))
    IN IF Len(stripped) > FileCap THEN SubSeq(stripped, 1, FileCap) ELSE stripped

\* characters a title is made of here: a letter, the two stripped
\* characters and an invalid one
TitleChars == {"a", " ", ".", "?"}

\* lengths of the middle part of a title (a run of "x"), around the two caps
FillerLengths == {0, TitleCap - 1, TitleCap, FileCap - 1, FileCap}

InitSanitize ==
    /\ ExtractIdle
    /\ RunIdle
    /\ SlotsIdle
    /\ OrchIdle
    /\ AsmIdle
    /\ ScrollIdle
    /\ NamesIdle
    /\ san_pc = "start"
    /\ \E head \in SeqsUpTo(TitleChars, MaxAffix) :
       \E n \in FillerLengths :
       \E tail \in SeqsUpTo(TitleChars, MaxAffix) :
          san_title = head \o [k \in 1..n |-> "x"] \o tail
    /\ dir_name = <<>>
    /\ file_name = <<>>

\* downloader.py line 108 and comic_issue_automation.py line 296
SanitizeCalls ==
    /\ san_pc = "start"
    /\ dir_name' = sanitize_title(san_title)
    /\ file_name' = sanitize_filename(san_title)
    /\ san_pc' = "done"
    /\ UNCHANGED san_title
    /\ UNCHANGED <<exVars, runVars, slotVars, orchVars, asmVars, scrollVars, nameVars>>

NextSanitize == SanitizeCalls

SpecSanitize == InitSanitize /\ [][NextSanitize]_vars

\* ------------------------------------------------------------------------
\* The names of two pages of one issue: the file download_image writes for
\* each (lines 238-253) and the entry create_cbz writes for it (line 308)
\* ------------------------------------------------------------------------

\* content types that name two formats, as a parameter of the header can
CtPngNamedJpg == CtPng \o <<";", "a", ".", "j", "p", "g">>

DeclaredTypes ==
    ContentTypes \cup {CtPngNamedJpg,
                       CtGif \o <<";", "a", ".", "p", "n", "g">>,
                       CtJpeg \o <<";", "a", ".", "g", "i", "f">>}

\* indices around the powers of ten: enumerate(urls) has no upper limit
PageIndices == {0} \cup {10 ^ k + d : k \in 0..MaxPower, d \in {0 - 1, 0, 1}}

PageAt(index, content_type, filename, archive_name) ==
    [image_index |-> index, content_type |-> content_type,
     filename |-> filename, archive_name |-> archive_name]

InitNames ==
    /\ ExtractIdle
    /\ RunIdle
    /\ SlotsIdle
    /\ OrchIdle
    /\ AsmIdle
    /\ ScrollIdle
    /\ SanIdle
    /\ name_pc = "start"
    /\ \E i, j \in PageIndices : \E cti, ctj \in DeclaredTypes :
          /\ i < j
          /\ pages = <<PageAt(i, cti, <<>>, <<>>), PageAt(j, ctj, <<>>, <<>>)>>

\* lines 238-260 for both pages: the extension of the content type, the
\* file name of the index
FetchPages ==
    /\ name_pc = "start"
    /\ pages' = [k \in DOMAIN pages |->
                    [pages[k] EXCEPT
                        !.filename = PageName(pages[k].image_index,
                                              ExtOf(pages[k].content_type))]]
    /\ name_pc' = "fetched"
    /\ UNCHANGED <<exVars, runVars, slotVars, orchVars, asmVars, scrollVars, sanVars>>

\* lines 305-309 for both pages
ArchivePages ==
    /\ name_pc = "fetched"
    /\ pages' = [k \in DOMAIN pages |->
                    [pages[k] EXCEPT
                        !.archive_name = ArchiveName(pages[k].image_index,
                                                     pages[k].filename)]]
    /\ name_pc' = "archived"
    /\ UNCHANGED <<exVars, runVars, slotVars, orchVars, asmVars, scrollVars, sanVars>>

NextNames == FetchPages \/ ArchivePages

SpecNames == InitNames /\ [][NextNames]_vars

\* ========================================================================
\* Properties
\* ========================================================================
Min(a, b) == IF a < b THEN a ELSE b

\* number of gaps of A among its first i positions
GapRank(A, i) == Cardinality({k \in 1..i : A[k] = null})

\* positions of A at which the walk emits something
Emitting(A, B) == {i \in 1..Len(A) : A[i] # null \/ GapRank(A, i) <= Len(B)}

\* C1: the merged sequence is A walked in order, a resolved position giving
\* its URL and the g-th gap giving the g-th entry of B (nothing once B is
\* used up), followed by the entries of B no gap consumed, in B's order;
\* [A,gap,gap] with [B,C] and [A,B] with [C] both give [A,B,C].
C1_Reconciliation ==
    ex_pc = "extracted" =>
        LET A == domUrls
            B == jsUrls
            P == Emitting(A, B)
            used == Min(GapRank(A, Len(A)), Len(B))
            pos(i) == Cardinality({p \in P : p <= i})
        IN /\ Len(urls) = Cardinality(P) + (Len(B) - used)
           /\ \A i \in P :
                 urls[pos(i)] = IF A[i] # null THEN A[i] ELSE B[GapRank(A, i)]
           /\ \A k \in (used + 1)..Len(B) : urls[Cardinality(P) + (k - used)] = B[k]
           /\ (A = <<1, null, null>> /\ B = <<2, 3>>) => urls = <<1, 2, 3>>
           /\ (A = <<1, 2>> /\ B = <<3>>) => urls = <<1, 2, 3>>

C1_Witness ==
    /\ ex_pc = "extracted"
    /\ domUrls = <<1, null, null>>
    /\ jsUrls = <<2, 3>>
    /\ urls = <<1, 2, 3>>

FirstOcc(us, u) == CHOOSE k \in 1..Len(us) : us[k] = u /\ \A j \in 1..(k - 1) : us[j] # u

\* C2: the returned list has no duplicate and no null entry, holds exactly
\* the URLs of the merged sequence, and the URL at position k is the one
\* whose first occurrence in the merged sequence is preceded by the first
\* occurrences of exactly k-1 other URLs.
C2_FinalUrlsUnique ==
    ex_pc = "extracted" =>
        LET n == Len(finalUrls)
            merged == {urls[k] : k \in 1..Len(urls)} \ {null}
        IN /\ \A a, b \in 1..n : a # b => finalUrls[a] # finalUrls[b]
           /\ \A a \in 1..n : finalUrls[a] # null
           /\ {finalUrls[a] : a \in 1..n} = merged
           /\ \A a \in 1..n :
                 Cardinality({v \in merged :
                                 FirstOcc(urls, v) < FirstOcc(urls, finalUrls[a])}) = a - 1

C2_Witness ==
    /\ ex_pc = "extracted"
    /\ Len(finalUrls) >= 2
    /\ Len(finalUrls) < Len(urls)
    /\ \E k \in 1..Len(domUrls) : domUrls[k] = null

PairIndices == {ordered_files[k][1] : k \in 1..Len(ordered_files)}

Succeeded == {i \in Indices : item[i].st = "ok"}

HoldsUrl(name, url) ==
    \E f \in images_dir.files : f.name = name /\ f.data = url

\* C3: when download_image_urls has returned, its list holds one pair per
\* item that succeeded and nothing else, strictly ascending by index, and the
\* file of the pair with index i holds the response of the i-th input URL.
C3_DownloadResult ==
    run_pc = "check" =>
        /\ \A k \in 1..(Len(ordered_files) - 1) :
              ordered_files[k][1] < ordered_files[k + 1][1]
        /\ PairIndices = Succeeded
        /\ \A k \in 1..Len(ordered_files) :
              /\ ordered_files[k] = results[ordered_files[k][1]].val
              /\ HoldsUrl(ordered_files[k][2], image_urls[ordered_files[k][1] + 1])

C3_Witness ==
    /\ run_pc = "check"
    /\ Len(ordered_files) = 2
    /\ item[0].attempt = 2
    /\ item[1].attempt = 0

\* C4: an item is dropped only after max_retries attempts, and an item one
\* of whose attempts (the third included) succeeded is in the returned list
\* at its own index.
C4_RetryThenSuccess ==
    /\ \A i \in Indices : item[i].st = "failed" => item[i].attempt = max_retries - 1
    /\ run_pc = "check" =>
          \A i \in Indices :
              (item[i].st = "ok" /\ item[i].attempt < max_retries) =>
                  \E k \in 1..Len(ordered_files) :
                      /\ ordered_files[k][1] = i
                      /\ Cardinality({j \in Indices : item[j].st = "ok" /\ j < i}) = k - 1

C4_Witness ==
    /\ run_pc = "check"
    /\ \E i \in Indices :
          /\ item[i].st = "ok"
          /\ item[i].attempt = 2
          /\ \E k \in 1..Len(ordered_files) : ordered_files[k][1] = i

\* C5: when download_image_urls has returned, no item that failed all its
\* attempts is in the list, every item that succeeded is, whatever its
\* siblings did, and with no success the list is empty.
C5_FailureIsolated ==
    run_pc = "check" =>
        /\ \A i \in Indices : item[i].st = "failed" => i \notin PairIndices
        /\ \A i, j \in Indices :
              (item[i].st = "failed" /\ item[j].st = "ok") => j \in PairIndices
        /\ (Succeeded = {}) => ordered_files = <<>>
        /\ Len(ordered_files) = Cardinality(Succeeded)

C5_Witness ==
    /\ run_pc = "check"
    /\ \E i, j \in Indices :
          /\ item[i].st = "failed"
          /\ item[j].st = "ok"
          /\ j \in PairIndices
          /\ i \notin PairIndices

AfterDownload == run_pc \in {"check", "create_cbz", "cleanup", "except", "finally", "done"}

\* C7: once download_image_urls has returned no item is pending, in flight
\* or sleeping before a retry.
C7_ReturnAfterAllTerminal ==
    AfterDownload => \A i \in Indices : Terminal(i) /\ results[i] # ResRunning

C7_Witness ==
    /\ run_pc = "check"
    /\ Len(image_urls) = 2
    /\ \E i, j \in Indices : item[i].st = "failed" /\ item[j].st = "ok"

\* C10: the entries of the archive of a run are in strictly increasing index
\* order and carry pairwise different names.
C10_ArchiveOrdered ==
    cbz.state # "absent" =>
        /\ \A k \in 1..(Len(cbz.entries) - 1) :
              cbz.entries[k].index < cbz.entries[k + 1].index
        /\ \A a, b \in 1..Len(cbz.entries) :
              a # b => cbz.entries[a].name # cbz.entries[b].name

C10_Witness ==
    /\ cbz.state = "closed"
    /\ Len(cbz.entries) = 2
    /\ item[0].attempt > item[1].attempt

Holding == {p \in ItemPositions : p.st \in {"get", "sleep"}}

RECURSIVE SumCnt(_)
SumCnt(S) ==
    IF S = {} THEN 0
    ELSE LET p == CHOOSE q \in S : TRUE IN batch_cnt[p] + SumCnt(S \ {p})

\* C6: the tasks between acquiring and releasing the semaphore are never
\* more than AssetBound, they are exactly the slots taken from it, and while
\* tasks wait for a slot the tasks holding one can still take their step.
C6_AtMostAssetBound ==
    batch_pc = "fetching" =>
        /\ SumCnt(Holding) <= AssetBound
        /\ SumCnt(Holding) = AssetBound - batch_sem
        /\ (batch_cnt[Pos("pending", 0)] > 0 /\ batch_sem = 0) =>
              \E a \in Attempts :
                  \/ ENABLED SlotsAttemptSucceeds(a)
                  \/ ENABLED SlotsRetryAfterSleep(a)

C6_Witness ==
    /\ batch_pc = "fetching"
    /\ batch_sem = 0
    /\ SumCnt(Holding) = AssetBound
    /\ batch_cnt[Pos("pending", 0)] > 0
    /\ batch_cnt[Pos("sleep", 1)] > 0

Active == {i \in Issues : issue[i].pc \in Stages}

\* C8: the issues between acquiring and releasing the issue semaphore are
\* never more than max_concurrent_issues, and they are exactly the slots
\* taken from it.
C8_AtMostCollectionBound ==
    /\ Cardinality(Active) <= max_concurrent_issues
    /\ orch_pc = "gather" => semaphore = max_concurrent_issues - Cardinality(Active)

C8_Witness ==
    /\ max_concurrent_issues = 3
    /\ Cardinality(Active) = 3
    /\ \E i \in Issues : issue[i].pc = "queued"
    /\ \E i \in Issues : issue[i].pc = "done"

\* C9: when download has processed N issues it returns N outcomes, one per
\* issue, each the outcome of that issue.
C9_OutcomesReturned ==
    (orch_pc = "returned" /\ issue # <<>>) =>
        /\ download_ret.kind = "list"
        /\ Len(download_ret.val) = Len(issue)
        /\ \A i \in Issues : download_ret.val[i] = issue[i].out

SortedByIndex(pairs) == \A k \in 1..(Len(pairs) - 1) : pairs[k][1] < pairs[k + 1][1]

\* C11 as claimed: whatever list create_cbz is given, the entries of the
\* archive it writes are in ascending index order.
C11_AscendingForAnyList ==
    asm_ret = CbzPath =>
        \A k \in 1..(Len(cbz.entries) - 1) :
            cbz.entries[k].index <= cbz.entries[k + 1].index

\* C11 amended: create_cbz writes the k-th entry from the k-th pair of its
\* list, so the entries are in ascending index order when the list is sorted
\* by index.
C11_ListOrderKept ==
    asm_ret = CbzPath =>
        /\ Len(cbz.entries) = Len(ordered_files)
        /\ \A k \in 1..Len(ordered_files) :
              /\ cbz.entries[k].index = ordered_files[k][1]
              /\ cbz.entries[k].data = ordered_files[k][1] + 1
        /\ SortedByIndex(ordered_files) =>
              \A k \in 1..(Len(cbz.entries) - 1) :
                  cbz.entries[k].index < cbz.entries[k + 1].index

C11_Witness ==
    /\ asm_ret = CbzPath
    /\ Len(ordered_files) = 3
    /\ SortedByIndex(ordered_files)
    /\ cbz.entries[1].index < cbz.entries[3].index

DigitValue(c) == CHOOSE d \in 0..9 : DigitChars[d + 1] = c

RECURSIVE DigitsValue(_)
DigitsValue(ds) ==
    IF ds = <<>> THEN 0
    ELSE 10 * DigitsValue(SubSeq(ds, 1, Len(ds) - 1)) + DigitValue(ds[Len(ds)])

\* the number written between "page_" and the extension of a name
NameIndex(name) == DigitsValue(SubSeq(name, 6, Len(name) - Len(Suffix(name))))

IndexList(pairs) == [k \in 1..Len(pairs) |-> pairs[k][1]]

\* C12: the archive has one entry per pair of the list, and the number in
\* the name of the k-th entry is the index of the k-th pair, not k - 1;
\* indices 0, 2, 5 give page_000, page_002, page_005.
C12_NoRenumbering ==
    asm_ret = CbzPath =>
        /\ Len(cbz.entries) = Len(ordered_files)
        /\ \A k \in 1..Len(ordered_files) :
              /\ NameIndex(cbz.entries[k].name) = ordered_files[k][1]
              /\ Suffix(cbz.entries[k].name) = Suffix(ordered_files[k][2])
        /\ IndexList(ordered_files) = <<0, 2, 5>> =>
              /\ SubSeq(cbz.entries[1].name, 1, 8) = <<"p", "a", "g", "e", "_", "0", "0", "0">>
              /\ SubSeq(cbz.entries[2].name, 1, 8) = <<"p", "a", "g", "e", "_", "0", "0", "2">>
              /\ SubSeq(cbz.entries[3].name, 1, 8) = <<"p", "a", "g", "e", "_", "0", "0", "5">>

C12_Witness ==
    /\ asm_ret = CbzPath
    /\ IndexList(ordered_files) = <<0, 2, 5>>
    /\ Len(cbz.entries) = 3
    /\ NameIndex(cbz.entries[3].name) = 5

\* C13: a call of create_cbz with an empty list ends with ValueError and
\* leaves the output archive as it was, absent or with its former content.
C13_EmptyListWritesNothing ==
    [][(asm_pc = "call" /\ ordered_files = <<>>) =>
          (asm_ret' = "ValueError" /\ cbz' = cbz)]_vars

C13_Witness ==
    /\ asm_pc = "done"
    /\ ordered_files = <<>>
    /\ asm_ret = "ValueError"
    /\ cbz = OldArchive

\* C14: once download_image_urls has returned an empty list (no URL was
\* found, or no item succeeded) run never reaches create_cbz, no archive
\* exists, run does not return the archive path, and with no URL no
\* download task was created.
C14_EmptyResultSkipsAssembly ==
    (AfterDownload /\ ordered_files = <<>>) =>
        /\ run_pc \notin {"create_cbz", "cleanup"}
        /\ cbz = NoArchive
        /\ ret_val # CbzPath
        /\ run_ret # CbzPath
        /\ image_urls = <<>> => (item = <<>> /\ images_dir.files = {})

C14_Witness ==
    /\ run_pc = "done"
    /\ run_ret = None
    /\ Len(image_urls) = 2
    /\ \A i \in Indices : item[i].st = "failed"
    /\ cbz = NoArchive

\* C15: whenever run has returned (the archive path or None), cleanup() has
\* been called during that run.
C15_CleanupOnEveryReturn ==
    (run_pc = "done" /\ run_ret \in {None, CbzPath}) => cleaned

\* C16: when the archive has been written and closed and run has returned,
\* run returned the archive path, whatever cleanup did.
C16_CleanupFailureNotEscalated ==
    (run_pc = "done" /\ cbz.state = "closed" /\ run_ret # Raised) => run_ret = CbzPath

\* the k-th smallest index among the items that succeeded
NthSucceeded(k) ==
    CHOOSE i \in Succeeded : Cardinality({j \in Succeeded : j < i}) = k - 1

C20_AttemptPolicy ==
    /\ [](\A i \in Indices :
             /\ item[i].attempt < max_retries
             /\ item[i].st = "sleep" => item[i].attempt < max_retries - 1)
    /\ [][\A i \in Indices :
             /\ Terminal(i) => item'[i] = item[i]
             /\ item'[i].attempt # item[i].attempt =>
                   /\ item[i].st = "sleep"
                   /\ item'[i] = [st |-> "get", attempt |-> item[i].attempt + 1]
             /\ (item[i].st = "sleep" /\ item'[i] # item[i]) => item'[i].st = "get"]_vars

C20_Witness ==
    /\ \E i \in Indices : item[i].st = "failed" /\ item[i].attempt = max_retries - 1
    /\ \E j \in Indices : item[j].st = "ok" /\ item[j].attempt = 1


\* C17: two distinct issues of one download call that are inside their
\* pipeline at the same time (between taking the slot and leaving
\* process_issue) never have the same issue directory, whatever characters
\* their titles differ in.
C17_IssueDirPrivate ==
    \A i, j \in Issues :
        (i # j /\ issue[i].pc \in Stages /\ issue[j].pc \in Stages /\ titles # <<>>)
            => issue_dir(i) # issue_dir(j)


AllItemsTerminal ==
    \A p \in ItemPositions : p.st \notin {"ok", "failed"} => batch_cnt[p] = 0

AllIssuesTerminal == \A i \in Issues : issue[i].pc = "done"

LiveDone ==
    \/ batch_pc = "returned" /\ AllItemsTerminal
    \/ orch_pc = "returned" /\ AllIssuesTerminal

C21_ScrollLoopEnds == <>(scroll_pc = "done")

\* parts of C21 that hold: at the end of the loop the position is at or
\* beyond the last measured height, and the tracked height never decreases
ScrollEndsBeyondHeight ==
    scroll_pc \in {"bottom", "done"} => current_position >= scroll_height

ScrollHeightNeverDecreases ==
    [][scroll_pc # "start" => scroll_height' >= scroll_height]_vars

\* with a step of at least 1 the loop ends
ScrollLoopEndsWithStep == (scroll_pc = "while" /\ scroll_step > 0) ~> (scroll_pc = "done")

PathInvalid == {"<", ">", ":", "\"", "/", "\\", "|", "?", "*"}

CleanName(name, cap) ==
    /\ \A k \in DOMAIN name : name[k] \notin PathInvalid
    /\ Len(name) <= cap
    /\ name # <<>> => (name[1] \notin {" ", "."} /\ name[Len(name)] \notin {" ", "."})

\* C22: for every title the directory name and the archive file name made
\* of it hold no character invalid in a path component, are at most 100 and
\* 200 characters long, and neither begin nor end with a space or a dot.
C22_SanitizedNameClean ==
    san_pc = "done" => (CleanName(dir_name, 100) /\ CleanName(file_name, 200))

\* parts of C22 that hold for every title: no invalid character, the caps,
\* and no space or dot at the beginning
SanitizedNameWithinCap ==
    san_pc = "done" =>
        /\ \A k \in DOMAIN dir_name : dir_name[k] \notin PathInvalid
        /\ \A k \in DOMAIN file_name : file_name[k] \notin PathInvalid
        /\ Len(dir_name) <= 100
        /\ Len(file_name) <= 200
        /\ dir_name # <<>> => dir_name[1] \notin {" ", "."}
        /\ file_name # <<>> => file_name[1] \notin {" ", "."}

\* code points of the characters of a page name
CodePoint(c) ==
    CASE c = "." -> 46
      [] c \in {DigitChars[d] : d \in 1..10} -> 48 + DigitValue(c)
      [] c = "_" -> 95
      [] c = "a" -> 97
      [] c = "e" -> 101
      [] c = "f" -> 102
      [] c = "g" -> 103
      [] c = "i" -> 105
      [] c = "j" -> 106
      [] c = "n" -> 110
      [] c = "p" -> 112

\* a < b as strings: at the first position where they differ a has the
\* smaller character, or a is a proper prefix of b
RECURSIVE StrLess(_, _)
StrLess(a, b) ==
    IF b = <<>> THEN FALSE
    ELSE IF a = <<>> THEN TRUE
    ELSE IF Head(a) # Head(b) THEN CodePoint(Head(a)) < CodePoint(Head(b))
    ELSE StrLess(Tail(a), Tail(b))

NamesInOrder(k, l) ==
    /\ StrLess(pages[k].filename, pages[l].filename)
    /\ StrLess(pages[k].archive_name, pages[l].archive_name)

\* C23 as stated: for any two pages with indices i < j, whatever the index,
\* the file name and the entry name of i sort before those of j as strings.
C23_NamesSortForAnyIndex ==
    name_pc = "archived" => NamesInOrder(1, 2)

\* C23 amended: for any two pages with indices i < j below 1000 (three
\* digits), the file name and the entry name of i sort before those of j.
C23_NamesSortBelowThousand ==
    (name_pc = "archived" /\ pages[2].image_index < 1000) => NamesInOrder(1, 2)

\* two pages with indices of different digit counts below 1000, archived
C23_Witness ==
    /\ name_pc = "archived"
    /\ pages[1].image_index = 99
    /\ pages[2].image_index = 100
    /\ pages[1].content_type = CtPng
    /\ pages[2].content_type = CtGif
    /\ NamesInOrder(1, 2)

HasWord(word, s) ==
    \E k \in 1..Len(s) : k + Len(word) - 1 <= Len(s) /\
        \A d \in 1..Len(word) : s[k + d - 1] = word[d]

\* the extension the claim gives a content type
DeclaredExt(ct) ==
    IF HasWord(<<"j", "p", "e", "g">>, ct) \/ HasWord(<<"j", "p", "g">>, ct)
    THEN <<".", "j", "p", "g">>
    ELSE IF HasWord(<<"p", "n", "g">>, ct) THEN <<".", "p", "n", "g">>
    ELSE IF HasWord(<<"g", "i", "f">>, ct) THEN <<".", "g", "i", "f">>
    ELSE <<".", "j", "p", "g">>

\* C24: the file of a fetched page has the extension its content type
\* gives (jpeg or jpg: .jpg; else png: .png; else gif: .gif; else, a
\* missing content type included, .jpg) and the archive entry of the page
\* has the extension of the file.
C24_ExtensionFromContentType ==
    \A k \in DOMAIN pages :
        /\ name_pc \in {"fetched", "archived"} =>
              Suffix(pages[k].filename) = DeclaredExt(pages[k].content_type)
        /\ name_pc = "archived" =>
              Suffix(pages[k].archive_name) = Suffix(pages[k].filename)

\* a page declared as png with a jpg name in a parameter, and a page with
\* no content type, both archived
C24_Witness ==
    /\ name_pc = "archived"
    /\ pages[1].content_type = CtPngNamedJpg
    /\ Suffix(pages[1].archive_name) = <<".", "j", "p", "g">>
    /\ pages[2].content_type = CtMissing
    /\ Suffix(pages[2].archive_name) = <<".", "j", "p", "g">>

RECURSIVE SumOver(_, _)
SumOver(cnt, S) ==
    IF S = {} THEN 0
    ELSE LET p == CHOOSE q \in S : TRUE IN cnt[p] + SumOver(cnt, S \ {p})

TerminalPositions == {p \in ItemPositions : p.st \in {"ok", "failed"}}

\* a step of the batch changes the free asset slots by the items that
\* became terminal less the items that left the queue for their first
\* attempt: nothing else (a failed attempt, a retry delay) moves a slot
AssetSlotsFollowItems ==
    batch_pc = "fetching" =>
        batch_sem' = batch_sem
            + (SumOver(batch_cnt', TerminalPositions) - SumOver(batch_cnt, TerminalPositions))
            - (batch_cnt[Pos("pending", 0)] - batch_cnt'[Pos("pending", 0)])

\* an issue that leaves process_issue gives back the slot it took, whatever
\* its outcome; one that never took a slot gives none back
IssueSlotsFollowIssues ==
    \A i \in DOMAIN issue :
        (i \in DOMAIN issue' /\ issue[i].pc # "done" /\ issue'[i].pc = "done") =>
            /\ issue'[i].out \in {OutPath, OutNone, OutNoneExtract, OutRaised}
            /\ semaphore' = semaphore + (IF issue[i].pc \in Stages THEN 1 ELSE 0)

\* C25: no slot leaks.  An item has its asset slot from its first attempt
\* to its terminal outcome, retry delays included, and gives it back on every
\* terminal outcome; an issue gives its slot back whether run gave a path,
\* gave None or raised.  When the batch has returned all AssetBound slots are
\* free, and when the gather of download is over all max_concurrent_issues
\* slots are free.
C25_SlotsNeverLeak ==
    /\ []((batch_pc = "returned") =>
             (batch_sem = AssetBound /\ SumOver(batch_cnt, Holding) = 0))
    /\ []((orch_pc = "returned" /\ issue # <<>>) =>
             (semaphore = max_concurrent_issues /\ Active = {}))
    /\ [][AssetSlotsFollowItems /\ IssueSlotsFollowIssues]_vars

\* a returned batch of more items than slots, some given up after the last
\* attempt, some fetched after a retry
C25_Witness ==
    /\ batch_pc = "returned"
    /\ batch_sem = AssetBound
    /\ SumOver(batch_cnt, TerminalPositions) > AssetBound
    /\ batch_cnt[Pos("failed", max_retries - 1)] > 0
    /\ batch_cnt[Pos("ok", 1)] > 0

====
